---- MODULE Spec2Model ----
(***************************************************************************)
(* State-machine model of CGALRenderer (src/src/CGALRenderer.cc): the      *)
(* geometry classifier (addGeometry), the lazily built polyhedron cache    *)
(* (getPolyhedrons / buildPolyhedrons / setColorScheme), the vertex batch  *)
(* builder (createPolysets) and the draw dispatcher (draw, getBoundingBox).*)
(***************************************************************************)
EXTENDS Integers, Sequences, FiniteSets, TLC

VARIABLES
  flag,               \* Feature::ExperimentalVxORenderers.is_enabled()
  last_render_state,  \* CGALRenderer::last_render_state
  colorscheme,        \* Renderer::colorscheme
  colormap,           \* Renderer::colormap (the two 2D entries)
  polysets,           \* CGALRenderer::polysets
  nefPolyhedrons,     \* CGALRenderer::nefPolyhedrons
  polyhedrons,        \* CGALRenderer::polyhedrons (the drawable cache)
  polyset_states,     \* CGALRenderer::polyset_states (the draw segments)
  polyset_vbo,        \* CGALRenderer::polyset_vbo (0 = no buffer handle)
  gl,                 \* the global graphics state
  attrPostDisable,    \* whether a vertex state disables its arrays after drawing
  call,               \* history: the last operation and what it did
  prev,               \* history: the operation before the last one
  trace,              \* history: graphics events issued by the last operation
  glBefore            \* history: graphics state when the last draw() was called,
                      \* the current state if the last operation was not draw()

vars == <<flag, last_render_state, colorscheme, colormap, polysets,
          nefPolyhedrons, polyhedrons, polyset_states, polyset_vbo, gl,
          attrPostDisable, call, prev, trace, glBefore>>

----------------------------------------------------------------------------
\* Bounds of the model.
MaxPolysets == 2
MaxNefs == 2
MaxChildren == 2

----------------------------------------------------------------------------
\* Geometry handles.  Every handle is a record of the same shape.
Geom(kind, id, empty, children) ==
  [kind |-> kind, id |-> id, empty |-> empty, children |-> children]

PolySetGeom(id) == Geom("PolySet", id, FALSE, <<>>)
Polygon2dGeom(id) == Geom("Polygon2d", id, FALSE, <<>>)
NefGeom(id, empty) == Geom("CGAL_Nef_polyhedron", id, empty, <<>>)
OtherGeom == Geom("Other", 0, FALSE, <<>>)
GeometryList(children) == Geom("GeometryList", 0, FALSE, children)
NoGeom == Geom("none", 0, FALSE, <<>>)

Leaves ==
  {PolySetGeom(1), Polygon2dGeom(2), NefGeom(1, FALSE), NefGeom(2, FALSE),
   NefGeom(3, TRUE), OtherGeom}

SeqsUpTo(S, n) == UNION {[1..k -> S] : k \in 0..n}

\* Lists of leaves, and lists of one or two items that are leaves or lists.
FlatLists == {GeometryList(c) : c \in SeqsUpTo(Leaves, MaxChildren)}
NestedLists ==
  {GeometryList(<<a>>) : a \in FlatLists} \cup
  {GeometryList(<<a, b>>) : a \in Leaves \cup FlatLists, b \in Leaves \cup FlatLists}

\* Lists nested three deep.
DeepLists ==
  {GeometryList(<<a, GeometryList(<<b, GeometryList(<<c>>)>>)>>) :
     a \in Leaves, b \in Leaves, c \in Leaves}

\* Inputs of addGeometry for the polyhedron cache: boundary polyhedra, empty
\* and not, alone and nested, and an unknown variant.
CacheInputs ==
  {NefGeom(1, FALSE), NefGeom(2, FALSE), NefGeom(3, TRUE), OtherGeom,
   GeometryList(<<NefGeom(3, TRUE), GeometryList(<<NefGeom(2, FALSE)>>)>>)}

\* Inputs of addGeometry for the polygon-set paths of draw().
PolysetInputs ==
  {PolySetGeom(1), Polygon2dGeom(2), GeometryList(<<>>),
   GeometryList(<<Polygon2dGeom(2), GeometryList(<<PolySetGeom(1)>>)>>)}

----------------------------------------------------------------------------
\* Geometry classifier.

\* PolySet branch: a tessellated 3D copy is retained.
retainPolySet(ps, lists) ==
  [lists EXCEPT !.polysets = Append(@, [dim |-> 3, src |-> ps.id])]

\* Polygon2d branch: the tessellation, a PolySet of dimension 2, is retained.
retainPolygon2d(poly, lists) ==
  [lists EXCEPT !.polysets = Append(@, [dim |-> 2, src |-> poly.id])]

retainNef_noEmptyCheck(new_N, lists) ==
  [lists EXCEPT
     !.nefPolyhedrons = Append(@, [id |-> new_N.id, empty |-> new_N.empty])]

\* CGAL_Nef_polyhedron branch: retained only if not empty.
retainNef(new_N, lists) ==
  IF ~new_N.empty
    THEN [lists EXCEPT
            !.nefPolyhedrons = Append(@, [id |-> new_N.id, empty |-> new_N.empty])]
    ELSE lists

RECURSIVE addGeometry(_, _)
RECURSIVE addChildren(_, _)

addChildren_firstOnly(children, lists) ==
  IF children = <<>> THEN lists ELSE addGeometry(Head(children), lists)

\* GeometryList branch: every child in child order.
addChildren(children, lists) ==
  IF children = <<>> THEN lists
  ELSE addChildren(Tail(children), addGeometry(Head(children), lists))

addGeometry_unknownAsPolySet(geom, lists) ==
  IF geom.kind = "GeometryList" THEN addChildren(geom.children, lists)
  ELSE IF geom.kind = "Polygon2d" THEN retainPolygon2d(geom, lists)
  ELSE IF geom.kind = "CGAL_Nef_polyhedron" THEN retainNef(geom, lists)
  ELSE retainPolySet(geom, lists)

addGeometry(geom, lists) ==
  IF geom.kind = "GeometryList" THEN addChildren(geom.children, lists)
  ELSE IF geom.kind = "PolySet" THEN retainPolySet(geom, lists)
  ELSE IF geom.kind = "Polygon2d" THEN retainPolygon2d(geom, lists)
  ELSE IF geom.kind = "CGAL_Nef_polyhedron" THEN retainNef(geom, lists)
  ELSE lists

Retained == [polysets |-> polysets, nefPolyhedrons |-> nefPolyhedrons]
NoneRetained == [polysets |-> <<>>, nefPolyhedrons |-> <<>>]

----------------------------------------------------------------------------
\* Color schemes.  ColorMap::getColor(cs, role) is a table lookup.
Schemes == {"Cornfield", "Metallic"}
DefaultScheme == "Cornfield"

getColor(cs, role) == [scheme |-> cs, role |-> role]
NoColor == [scheme |-> "-", role |-> "-"]

\* Renderer::setColorScheme: the base class sets the material color.
RendererColors(cs) ==
  [MATERIAL |-> getColor(cs, "OPENCSG_FACE_FRONT_COLOR"),
   CGAL_FACE_2D_COLOR |-> NoColor,
   CGAL_EDGE_2D_COLOR |-> NoColor]

\* The colormap after CGALRenderer::setColorScheme(cs).
SchemeColors(cs) ==
  [RendererColors(cs) EXCEPT
     !.CGAL_FACE_2D_COLOR = getColor(cs, "CGAL_FACE_2D_COLOR"),
     !.CGAL_EDGE_2D_COLOR = getColor(cs, "CGAL_EDGE_2D_COLOR")]

----------------------------------------------------------------------------
\* Polyhedron cache.

ObjectIds(list) == {list[i].id : i \in 1..Len(list)}

\* The objects of a build are new: <<gen, i>> identifies the object allocated
\* for the i-th retained polyhedron, with a gen that no object of the cache
\* and no object returned by the last call carries.
NewGen ==
  CHOOSE gen \in 1..3 : \A id \in ObjectIds(polyhedrons) \cup call.ret : id[1] # gen

\* One drawable polyhedron per retained polyhedron, built under the current
\* flag and color scheme.
buildPolyhedrons(gen) ==
  [i \in 1..Len(nefPolyhedrons) |->
     [nef |-> nefPolyhedrons[i].id, vbo |-> flag, scheme |-> colorscheme,
      id |-> <<gen, i>>, style |-> "none"]]

\* The rebuild condition of getPolyhedrons().
needsBuild ==
  nefPolyhedrons # <<>> /\
  (polyhedrons = <<>> \/ flag # last_render_state)

\* The list getPolyhedrons() returns.
getPolyhedrons ==
  IF needsBuild THEN buildPolyhedrons(NewGen) ELSE polyhedrons

----------------------------------------------------------------------------
\* History records.
Call(op) ==
  [op |-> op, rebuilt |-> FALSE, ret |-> {}, sameRet |-> FALSE,
   showfaces |-> FALSE,
   showedges |-> FALSE, geom |-> NoGeom, prePolysets |-> <<>>,
   preNefs |-> <<>>, preCache |-> 0, sameScheme |-> FALSE, builtSegs |-> FALSE,
   bbox |-> {}]

Prev == [op |-> call.op, showfaces |-> call.showfaces,
         showedges |-> call.showedges, before |-> prev.op]

DefaultGL ==
  [lighting |-> TRUE, depthTest |-> TRUE, lineWidth |-> 1, pointSize |-> 1,
   vertexArray |-> FALSE, normalArray |-> FALSE, colorArray |-> FALSE,
   buffers |-> {}]

----------------------------------------------------------------------------
\* Operations.

\* A change of the global rendering-mode flag.
SetFlag(v) ==
  /\ v # flag
  /\ flag' = v
  /\ call' = Call("setFlag")
  /\ prev' = Prev
  /\ UNCHANGED <<last_render_state, colorscheme, colormap, polysets,
                 nefPolyhedrons, polyhedrons, polyset_states, polyset_vbo, gl,
                 attrPostDisable>>
  /\ trace' = <<>>
  /\ glBefore' = gl

AddGeometry(geom) ==
  LET lists == addGeometry(geom, Retained) IN
  /\ polysets' = lists.polysets
  /\ nefPolyhedrons' = lists.nefPolyhedrons
  /\ call' = [Call("addGeometry") EXCEPT !.geom = geom,
                !.prePolysets = polysets, !.preNefs = nefPolyhedrons]
  /\ prev' = Prev
  /\ UNCHANGED <<flag, last_render_state, colorscheme, colormap, polyhedrons,
                 polyset_states, polyset_vbo, gl, attrPostDisable>>
  /\ trace' = <<>>
  /\ glBefore' = gl

SetColorScheme_keepIfSame(cs) ==
  /\ colorscheme' = cs
  /\ colormap' = SchemeColors(cs)
  /\ polyhedrons' = IF cs = colorscheme THEN polyhedrons ELSE <<>>
  /\ call' = [Call("setColorScheme") EXCEPT !.preCache = Len(polyhedrons),
                !.sameScheme = (cs = colorscheme)]
  /\ prev' = Prev
  /\ UNCHANGED <<flag, last_render_state, polysets, nefPolyhedrons,
                 polyset_states, polyset_vbo, gl, attrPostDisable>>
  /\ trace' = <<>>
  /\ glBefore' = gl

SetColorScheme(cs) ==
  /\ colorscheme' = cs
  /\ colormap' = SchemeColors(cs)
  /\ polyhedrons' = <<>>
  /\ call' = [Call("setColorScheme") EXCEPT !.preCache = Len(polyhedrons),
                !.sameScheme = (cs = colorscheme)]
  /\ prev' = Prev
  /\ UNCHANGED <<flag, last_render_state, polysets, nefPolyhedrons,
                 polyset_states, polyset_vbo, gl, attrPostDisable>>
  /\ trace' = <<>>
  /\ glBefore' = gl

GetPolyhedrons_consumesNefs ==
  /\ polyhedrons' = getPolyhedrons
  /\ nefPolyhedrons' = IF needsBuild THEN <<>> ELSE nefPolyhedrons
  /\ call' = [Call("getPolyhedrons") EXCEPT !.rebuilt = needsBuild,
                !.ret = ObjectIds(getPolyhedrons),
                !.sameRet = (ObjectIds(getPolyhedrons) = call.ret)]
  /\ prev' = Prev
  /\ UNCHANGED <<flag, last_render_state, colorscheme, colormap, polysets,
                 polyset_states, polyset_vbo, gl, attrPostDisable>>
  /\ trace' = <<>>
  /\ glBefore' = gl

\* A direct call of getPolyhedrons().
GetPolyhedrons ==
  /\ polyhedrons' = getPolyhedrons
  /\ call' = [Call("getPolyhedrons") EXCEPT !.rebuilt = needsBuild,
                !.ret = ObjectIds(getPolyhedrons),
                !.sameRet = (ObjectIds(getPolyhedrons) = call.ret)]
  /\ prev' = Prev
  /\ UNCHANGED <<flag, last_render_state, colorscheme, colormap, polysets,
                 nefPolyhedrons, polyset_states, polyset_vbo, gl,
                 attrPostDisable>>
  /\ trace' = <<>>
  /\ glBefore' = gl

\* The boxes getBoundingBox() unites: every returned drawable polyhedron,
\* then every retained polygon set.
BoxesOf(list) ==
  {<<"polyhedron", list[i].nef>> : i \in 1..Len(list)} \cup
  {<<"polyset", polysets[i].src>> : i \in 1..Len(polysets)}

GetBoundingBox ==
  /\ polyhedrons' = getPolyhedrons
  /\ call' = [Call("getBoundingBox") EXCEPT !.rebuilt = needsBuild,
                !.ret = ObjectIds(getPolyhedrons),
                !.sameRet = (ObjectIds(getPolyhedrons) = call.ret),
                !.bbox = BoxesOf(getPolyhedrons)]
  /\ prev' = Prev
  /\ UNCHANGED <<flag, last_render_state, colorscheme, colormap, polysets,
                 nefPolyhedrons, polyset_states, polyset_vbo, gl,
                 attrPostDisable>>
  /\ trace' = <<>>
  /\ glBefore' = gl

----------------------------------------------------------------------------
\* Graphics events and the global graphics state.
Ev(op, target, n, color) == [op |-> op, target |-> target, n |-> n, color |-> color]
NoDraw == Ev("none", "", 0, NoColor)

glDisable(cap) == Ev("glDisable", cap, 0, NoColor)
glEnable(cap) == Ev("glEnable", cap, 0, NoColor)
glLineWidth(w) == Ev("glLineWidth", "", w, NoColor)
glPointSize(w) == Ev("glPointSize", "", w, NoColor)
glEnableClientState(a) == Ev("glEnableClientState", a, 0, NoColor)
glDisableClientState(a) == Ev("glDisableClientState", a, 0, NoColor)
glBindBuffer(b) == Ev("glBindBuffer", "GL_ARRAY_BUFFER", b, NoColor)
glGenBuffers(b) == Ev("glGenBuffers", "", b, NoColor)
glDeleteBuffers(b) == Ev("glDeleteBuffers", "", b, NoColor)
setColor(mode) == Ev("setColor", mode, 0, colormap[mode])

\* The last of the indices in I, 0 if there is none.
LastIndex(I) ==
  IF I = {} THEN 0 ELSE CHOOSE k \in I : \A j \in I : j <= k

\* A capability or attribute array after events: the last event that
\* switches it decides, else it keeps its value v.
SwitchAfter(v, events, on, off, target) ==
  LET k == LastIndex({j \in DOMAIN events :
                        events[j].op \in {on, off} /\ events[j].target = target}) IN
  IF k = 0 THEN v ELSE events[k].op = on

\* A width or size after events: the last event that sets it decides.
NumberAfter(v, events, op) ==
  LET k == LastIndex({j \in DOMAIN events : events[j].op = op}) IN
  IF k = 0 THEN v ELSE events[k].n

\* The buffer handles in use after events: a handle is in use if the last
\* event that names it generated it, or if it was in use and no event names it.
BuffersAfter(b, events) ==
  LET named == {events[j].n :
                  j \in {i \in DOMAIN events :
                           events[i].op \in {"glGenBuffers", "glDeleteBuffers"}}}
      lastOf(h) == LastIndex({j \in DOMAIN events :
                                events[j].op \in {"glGenBuffers", "glDeleteBuffers"} /\
                                events[j].n = h})
  IN (b \ named) \cup {h \in named : events[lastOf(h)].op = "glGenBuffers"}

\* The graphics state after the events are applied in order to state g.
RunGL(g, events) ==
  [lighting |-> SwitchAfter(g.lighting, events, "glEnable", "glDisable", "GL_LIGHTING"),
   depthTest |-> SwitchAfter(g.depthTest, events, "glEnable", "glDisable", "GL_DEPTH_TEST"),
   lineWidth |-> NumberAfter(g.lineWidth, events, "glLineWidth"),
   pointSize |-> NumberAfter(g.pointSize, events, "glPointSize"),
   vertexArray |-> SwitchAfter(g.vertexArray, events, "glEnableClientState",
                               "glDisableClientState", "GL_VERTEX_ARRAY"),
   normalArray |-> SwitchAfter(g.normalArray, events, "glEnableClientState",
                               "glDisableClientState", "GL_NORMAL_ARRAY"),
   colorArray |-> SwitchAfter(g.colorArray, events, "glEnableClientState",
                              "glDisableClientState", "GL_COLOR_ARRAY"),
   buffers |-> BuffersAfter(g.buffers, events)]

RECURSIVE Concat(_)
Concat(seqs) == IF seqs = <<>> THEN <<>> ELSE Head(seqs) \o Concat(Tail(seqs))

----------------------------------------------------------------------------
\* Vertex batch builder.

\* A draw segment: actions before the draw, the draw call (NoDraw if the
\* segment only carries state), actions after it; src is the index of the
\* retained polygon set it was derived from.
VertexState(begin, draw, end, src) ==
  [begin |-> begin, draw |-> draw, end |-> end, src |-> src]

\* The attribute arrays of the two vertex layouts.
POLYSET_2D_DATA == <<"GL_VERTEX_ARRAY", "GL_COLOR_ARRAY">>
POLYSET_3D_DATA == <<"GL_VERTEX_ARRAY", "GL_NORMAL_ARRAY", "GL_COLOR_ARRAY">>

\* A segment that draws: it enables the arrays of its layout before the draw
\* and, depending on the vertex-array implementation, disables them after it.
DrawState(layout, prim, i, color) ==
  VertexState([k \in 1..Len(layout) |-> glEnableClientState(layout[k])],
              Ev("glDrawArrays", prim, polysets[i].src, color),
              IF attrPostDisable
                THEN [k \in 1..Len(layout) |-> glDisableClientState(layout[k])]
                ELSE <<>>,
              i)

create_polygons(i, color) == <<DrawState(POLYSET_2D_DATA, "faces2d", i, color)>>
create_edges(i, color) == <<DrawState(POLYSET_2D_DATA, "edges2d", i, color)>>
create_surface(i, color) == <<DrawState(POLYSET_3D_DATA, "surface3d", i, color)>>

init_state(i) == VertexState(<<>>, NoDraw, <<glDisable("GL_LIGHTING")>>, i)
edge_state(i) ==
  VertexState(<<glDisable("GL_DEPTH_TEST"), glLineWidth(2)>>, NoDraw, <<>>, i)
end_state(i) == VertexState(<<glEnable("GL_DEPTH_TEST")>>, NoDraw, <<>>, i)

segments2D_edgeStateLate(i) ==
  <<init_state(i)>> \o create_polygons(i, colormap.CGAL_FACE_2D_COLOR) \o
  create_edges(i, colormap.CGAL_EDGE_2D_COLOR) \o <<edge_state(i)>> \o
  <<end_state(i)>>

\* The segments of the i-th retained polygon set when it is 2D.
segments2D(i) ==
  <<init_state(i)>> \o create_polygons(i, colormap.CGAL_FACE_2D_COLOR) \o
  <<edge_state(i)>> \o create_edges(i, colormap.CGAL_EDGE_2D_COLOR) \o
  <<end_state(i)>>

\* The segments of the i-th retained polygon set when it is 3D.
segments3D(i) == create_surface(i, colormap.MATERIAL)

createPolysets ==
  Concat([i \in 1..Len(polysets) |->
            IF polysets[i].dim = 2 THEN segments2D(i) ELSE segments3D(i)])

\* VertexState::drawArrays.
drawArrays(vs) ==
  vs.begin \o (IF vs.draw.op = "none" THEN <<>> ELSE <<vs.draw>>) \o vs.end

----------------------------------------------------------------------------
\* Draw dispatcher.

legacy2D(i) ==
  <<glDisable("GL_LIGHTING"),
    setColor("CGAL_FACE_2D_COLOR"),
    Ev("polygons", "GL_POLYGON", polysets[i].src, NoColor),
    glDisable("GL_DEPTH_TEST"),
    glLineWidth(2),
    setColor("CGAL_EDGE_2D_COLOR"),
    Ev("render_edges", "CSGMODE_NONE", polysets[i].src, NoColor),
    glEnable("GL_DEPTH_TEST")>>

legacy3D(i) ==
  <<setColor("MATERIAL"),
    Ev("render_surface", "CSGMODE_NORMAL", polysets[i].src, NoColor)>>

\* The events of the legacy path over the retained polygon sets.
drawLegacy ==
  Concat([i \in 1..Len(polysets) |->
            IF polysets[i].dim = 2 THEN legacy2D(i) ELSE legacy3D(i)])

\* The restore of the attribute arrays: an array is disabled if it was
\* disabled when draw() was called.
restoreArrays(g) ==
  (IF ~g.vertexArray THEN <<glDisableClientState("GL_VERTEX_ARRAY")>> ELSE <<>>) \o
  (IF ~g.normalArray THEN <<glDisableClientState("GL_NORMAL_ARRAY")>> ELSE <<>>) \o
  (IF ~g.colorArray THEN <<glDisableClientState("GL_COLOR_ARRAY")>> ELSE <<>>)

drawBuffered_lastSegmentFirst(segs, vbo, g) ==
  <<glBindBuffer(vbo)>> \o
  Concat([k \in 1..Len(segs) |-> drawArrays(segs[Len(segs) + 1 - k])]) \o
  <<glBindBuffer(0), glPointSize(g.pointSize), glLineWidth(g.lineWidth)>> \o
  restoreArrays(g)

\* The events of the buffered path over the segments segs, with buffer vbo,
\* when the graphics state at the call is g.
drawBuffered(segs, vbo, g) ==
  <<glBindBuffer(vbo)>> \o
  Concat([k \in 1..Len(segs) |-> drawArrays(segs[k])]) \o
  <<glBindBuffer(0), glPointSize(g.pointSize), glLineWidth(g.lineWidth)>> \o
  restoreArrays(g)

styleFor(showfaces) == IF showfaces THEN "SNC_BOUNDARY" ELSE "SNC_SKELETON"

BoolStr(b) == IF b THEN "true" ELSE "false"

refreshRenderState_never(list) == last_render_state

\* last_render_state after the polyhedron loop of draw(): the loop body
\* stores the flag once per drawn polyhedron.
refreshRenderState(list) ==
  IF list # <<>> THEN flag ELSE last_render_state

\* The polyhedron loop of draw().
drawPolyhedrons(list, showfaces, showedges) ==
  [i \in 1..Len(list) |->
     [list[i] EXCEPT !.style = styleFor(showfaces)]]

polyhedronEvents(list, showfaces, showedges) ==
  Concat([i \in 1..Len(list) |->
            <<Ev("set_style", styleFor(showfaces), i, NoColor),
              Ev("polyhedron.draw", BoolStr(showfaces /\ showedges), i, NoColor)>>])

segmentsAbsent_always == TRUE

\* The test of draw() for building the segments.
segmentsAbsent == polyset_states = <<>>

drawOrder_polyhedronsFirst(polysetEvents, polyEvents) ==
  polyEvents \o polysetEvents

\* draw() issues the events of the polygon sets, then those of the
\* polyhedron loop.
drawOrder(polysetEvents, polyEvents) == polysetEvents \o polyEvents

Draw(showfaces, showedges) ==
  LET build == flag /\ segmentsAbsent
      segs == IF build THEN createPolysets ELSE polyset_states
      acquire == build /\ Len(polysets) > 0
      vbo == IF acquire THEN polyset_vbo + 1 ELSE polyset_vbo
      events == (IF acquire THEN <<glGenBuffers(vbo)>> ELSE <<>>) \o
                (IF ~flag THEN drawLegacy ELSE drawBuffered(segs, vbo, gl))
      list == getPolyhedrons
  IN
  /\ polyset_states' = IF flag THEN segs ELSE polyset_states
  /\ polyset_vbo' = IF flag THEN vbo ELSE polyset_vbo
  /\ gl' = RunGL(gl, events)
  /\ glBefore' = gl
  /\ polyhedrons' = drawPolyhedrons(list, showfaces, showedges)
  /\ last_render_state' = refreshRenderState(list)
  /\ trace' = drawOrder(events, polyhedronEvents(list, showfaces, showedges))
  /\ call' = [Call("draw") EXCEPT !.rebuilt = needsBuild,
                !.ret = ObjectIds(list), !.sameRet = (ObjectIds(list) = call.ret),
                !.showfaces = showfaces,
                !.showedges = showedges, !.builtSegs = build]
  /\ prev' = Prev
  /\ UNCHANGED <<flag, colorscheme, colormap, polysets, nefPolyhedrons,
                 attrPostDisable>>

\* ~CGALRenderer(): the buffer handle is released if there is one.
Destroy ==
  LET events == IF polyset_vbo # 0 THEN <<glDeleteBuffers(polyset_vbo)>> ELSE <<>> IN
  /\ gl' = RunGL(gl, events)
  /\ glBefore' = gl
  /\ trace' = events
  /\ call' = Call("destroy")
  /\ prev' = Prev
  /\ UNCHANGED <<flag, last_render_state, colorscheme, colormap, polysets,
                 nefPolyhedrons, polyhedrons, polyset_states, polyset_vbo,
                 attrPostDisable>>

\* Another user of the graphics context changes the global graphics state
\* by one call.
ExternalCalls ==
  {glEnable("GL_LIGHTING"), glDisable("GL_LIGHTING"),
   glEnable("GL_DEPTH_TEST"), glDisable("GL_DEPTH_TEST"),
   glLineWidth(1), glLineWidth(2), glPointSize(1), glPointSize(2),
   glEnableClientState("GL_VERTEX_ARRAY"), glDisableClientState("GL_VERTEX_ARRAY"),
   glEnableClientState("GL_NORMAL_ARRAY"), glDisableClientState("GL_NORMAL_ARRAY"),
   glEnableClientState("GL_COLOR_ARRAY"), glDisableClientState("GL_COLOR_ARRAY")}

SetGLState(e) ==
  /\ RunGL(gl, <<e>>) # gl
  /\ gl' = RunGL(gl, <<e>>)
  /\ glBefore' = RunGL(gl, <<e>>)
  /\ trace' = <<>>
  /\ call' = Call("setGLState")
  /\ prev' = Prev
  /\ UNCHANGED <<flag, last_render_state, colorscheme, colormap, polysets,
                 nefPolyhedrons, polyhedrons, polyset_states, polyset_vbo,
                 attrPostDisable>>

----------------------------------------------------------------------------
\* Specifications.

\* The state after CGALRenderer(geom).
Constructed(geom) ==
  LET lists == addGeometry(geom, NoneRetained) IN
  /\ flag \in BOOLEAN
  /\ last_render_state = flag
  /\ colorscheme = DefaultScheme
  /\ colormap = SchemeColors(DefaultScheme)
  /\ polysets = lists.polysets
  /\ nefPolyhedrons = lists.nefPolyhedrons
  /\ polyhedrons = <<>>
  /\ polyset_states = <<>>
  /\ polyset_vbo = 0
  /\ gl = DefaultGL
  /\ attrPostDisable \in BOOLEAN
  /\ call = Call("init")
  /\ prev = [op |-> "none", showfaces |-> FALSE, showedges |-> FALSE, before |-> "none"]
  /\ trace = <<>>
  /\ glBefore = DefaultGL

\* The retained lists stay within the bounds of the model.
Fits(geom, from) ==
  LET lists == addGeometry(geom, from) IN
  /\ Len(lists.polysets) <= MaxPolysets
  /\ Len(lists.nefPolyhedrons) <= MaxNefs

\* The polyhedron cache under every operation of the renderer.
Init == \E geom \in CacheInputs : Fits(geom, NoneRetained) /\ Constructed(geom)

Next ==
  \/ \E v \in BOOLEAN : SetFlag(v)
  \/ \E geom \in CacheInputs : Fits(geom, Retained) /\ AddGeometry(geom)
  \/ \E cs \in Schemes : SetColorScheme(cs)
  \/ GetPolyhedrons
  \/ GetBoundingBox
  \/ \E showfaces, showedges \in BOOLEAN : Draw(showfaces, showedges)

Spec == Init /\ [][Next]_vars

\* The polygon-set paths of draw() under every operation that affects them.
InitDraw ==
  \E geom \in PolysetInputs : Fits(geom, NoneRetained) /\ Constructed(geom)

NextDraw ==
  \/ \E v \in BOOLEAN : SetFlag(v)
  \/ \E geom \in PolysetInputs : Fits(geom, Retained) /\ AddGeometry(geom)
  \/ \E cs \in Schemes : SetColorScheme(cs)
  \/ \E showfaces, showedges \in BOOLEAN : Draw(showfaces, showedges)

SpecDraw == InitDraw /\ [][NextDraw]_vars

\* draw() called in any global graphics state.
InitGL ==
  \E geom \in {Polygon2dGeom(2), PolySetGeom(1), NefGeom(1, FALSE),
                GeometryList(<<Polygon2dGeom(2), PolySetGeom(1)>>)} :
     Constructed(geom)

NextGL ==
  \/ \E v \in BOOLEAN : SetFlag(v)
  \/ \E e \in ExternalCalls : SetGLState(e)
  \/ \E showfaces \in BOOLEAN : Draw(showfaces, TRUE)

SpecGL == InitGL /\ [][NextGL]_vars

\* addGeometry applied once, to a nested Composite, after construction.
InitFlatten ==
  /\ \E geom \in {Polygon2dGeom(2), GeometryList(<<PolySetGeom(1), NefGeom(1, FALSE)>>)} :
       Constructed(geom)
  /\ ~flag
  /\ ~attrPostDisable

NextFlatten ==
  /\ call.op = "init"
  /\ \E geom \in NestedLists \cup DeepLists : AddGeometry(geom)

SpecFlatten == InitFlatten /\ [][NextFlatten]_vars

\* Geometry given to a renderer that holds polygon sets and polyhedra.
MixedInputs ==
  {OtherGeom,
   GeometryList(<<OtherGeom, Polygon2dGeom(2),
                  GeometryList(<<OtherGeom, NefGeom(2, FALSE)>>)>>)}

\* The life of a renderer that holds polygon sets and polyhedra, from
\* construction to destruction.
InitLife ==
  /\ \E geom \in {GeometryList(<<Polygon2dGeom(2), NefGeom(1, FALSE)>>),
                   GeometryList(<<>>)} :
       Constructed(geom)
  /\ ~attrPostDisable

NextLife ==
  /\ call.op # "destroy"
  /\ \/ \E v \in BOOLEAN : SetFlag(v)
     \/ \E geom \in MixedInputs : Fits(geom, Retained) /\ AddGeometry(geom)
     \/ \E cs \in Schemes : SetColorScheme(cs)
     \/ GetPolyhedrons
     \/ GetBoundingBox
     \/ Draw(TRUE, TRUE)
     \/ Destroy

SpecLife == InitLife /\ [][NextLife]_vars

----------------------------------------------------------------------------
\* Properties.

\* The operations that call getPolyhedrons().
Getters == {"getPolyhedrons", "getBoundingBox", "draw"}

\* C1: with a retained polyhedron, the second of two consecutive
\* getPolyhedrons() calls (direct, or through getBoundingBox or draw), with no
\* setColorScheme and no flag change between them, performs no rebuild and
\* returns the objects the first call returned.
C1_SecondCallDoesNotRebuild ==
  (call.op \in Getters /\ prev.op \in Getters /\ nefPolyhedrons # <<>>)
    => (~call.rebuilt /\ call.sameRet)

\* C2: with a retained polyhedron, a getPolyhedrons() call that follows a
\* change of the flag's value made after the previous getPolyhedrons() call
\* rebuilds, and the cache then has one entry per retained polyhedron.
C2_FlagChangeRebuilds ==
  (call.op \in Getters /\ prev.op = "setFlag" /\ prev.before \in Getters /\
   nefPolyhedrons # <<>>)
    => (call.rebuilt /\ Len(polyhedrons) = Len(nefPolyhedrons))

\* C3: setColorScheme leaves the cache empty, also for the scheme already
\* active, and the next getPolyhedrons() over a non-empty retained list
\* rebuilds every entry with the new scheme.
C3_SetColorSchemeEmptiesCache ==
  /\ call.op = "setColorScheme" => polyhedrons = <<>>
  /\ (call.op \in Getters /\ prev.op = "setColorScheme" /\ nefPolyhedrons # <<>>)
       => /\ call.rebuilt
          /\ Len(polyhedrons) = Len(nefPolyhedrons)
          /\ \A i \in 1..Len(polyhedrons) : polyhedrons[i].scheme = colorscheme

C3_Witness ==
  /\ call.op = "setColorScheme"
  /\ call.sameScheme
  /\ call.preCache > 0
  /\ polyhedrons = <<>>

\* C4: the cache is empty or holds exactly one entry per retained
\* polyhedron, in order, all built under the same flag value.
C4_CacheEmptyOrComplete ==
  \/ polyhedrons = <<>>
  \/ /\ Len(polyhedrons) = Len(nefPolyhedrons)
     /\ \A i \in 1..Len(polyhedrons) : polyhedrons[i].nef = nefPolyhedrons[i].id
     /\ \A i, j \in 1..Len(polyhedrons) : polyhedrons[i].vbo = polyhedrons[j].vbo

\* The leaves of a geometry handle in depth-first child order.
RECURSIVE LeafSeq(_)
LeafSeq(geom) ==
  IF geom.kind = "GeometryList"
    THEN Concat([i \in 1..Len(geom.children) |-> LeafSeq(geom.children[i])])
    ELSE <<geom>>

IsPolygonSet(leaf) == leaf.kind \in {"PolySet", "Polygon2d"}
IsNonEmptyNef(leaf) == leaf.kind = "CGAL_Nef_polyhedron" /\ ~leaf.empty

\* C5: addGeometry of a Composite appends to the retained polygon sets
\* exactly its leaf polygon sets, and to the retained polyhedra exactly its
\* non-empty leaf boundary polyhedra, each in depth-first child order.
C5_CompositeFlattened ==
  call.op = "addGeometry" =>
    LET ps == SelectSeq(LeafSeq(call.geom), IsPolygonSet)
        nf == SelectSeq(LeafSeq(call.geom), IsNonEmptyNef)
    IN /\ polysets = call.prePolysets \o
                       [i \in 1..Len(ps) |->
                          [dim |-> IF ps[i].kind = "PolySet" THEN 3 ELSE 2,
                           src |-> ps[i].id]]
       /\ nefPolyhedrons = call.preNefs \o
                       [i \in 1..Len(nf) |-> [id |-> nf[i].id, empty |-> FALSE]]

C5_Witness ==
  /\ call.op = "addGeometry"
  /\ call.geom = GeometryList(<<GeometryList(<<NefGeom(2, FALSE), Polygon2dGeom(2)>>),
                                GeometryList(<<PolySetGeom(1), NefGeom(1, FALSE)>>)>>)
  /\ call.prePolysets # <<>>
  /\ call.preNefs # <<>>
  /\ Len(polysets) = Len(call.prePolysets) + 2
  /\ Len(nefPolyhedrons) = Len(call.preNefs) + 2

\* C6: no retained boundary polyhedron is empty, and addGeometry of a handle
\* whose boundary polyhedra are all empty leaves the retained list unchanged.
C6_NoEmptyPolyhedronRetained ==
  /\ \A i \in 1..Len(nefPolyhedrons) : ~nefPolyhedrons[i].empty
  /\ (call.op = "addGeometry" /\ SelectSeq(LeafSeq(call.geom), IsNonEmptyNef) = <<>>)
       => nefPolyhedrons = call.preNefs

C6_Witness ==
  /\ call.op = "addGeometry"
  /\ call.geom = NefGeom(3, TRUE)
  /\ nefPolyhedrons # <<>>
  /\ nefPolyhedrons = call.preNefs

\* The increasing sequence of the indices in the set I.
Ordered(I) ==
  [r \in 1..Cardinality(I) |->
     CHOOSE k \in I : Cardinality({j \in I : j <= k}) = r]

\* What a trace shows of the 2D polygon sets: the lighting, depth-test and
\* line-width actions and the face and edge draws with the color they are
\* drawn in, up to the unbinding of the buffer in the buffered path.  In the
\* legacy path a draw uses the color of the last setColor before it, in the
\* buffered path the color stored with its vertices.
Observed2D(events) ==
  LET unbind == LastIndex({j \in DOMAIN events : events[j].op = "glBindBuffer"})
      last == IF unbind = 0 THEN Len(events) ELSE unbind
      colorAt(k) ==
        LET c == LastIndex({j \in 1..k : events[j].op = "setColor"}) IN
        IF c = 0 THEN NoColor ELSE events[c].color
      item(k) ==
        LET e == events[k] IN
        IF e.op = "polygons" THEN <<"faces", e.n, colorAt(k)>>
        ELSE IF e.op = "render_edges" THEN <<"edges", e.n, colorAt(k)>>
        ELSE IF e.op = "glDrawArrays" /\ e.target = "faces2d" THEN <<"faces", e.n, e.color>>
        ELSE IF e.op = "glDrawArrays" /\ e.target = "edges2d" THEN <<"edges", e.n, e.color>>
        ELSE IF e.op = "glLineWidth" THEN <<"line width", e.n, NoColor>>
        ELSE <<e.op, e.target, NoColor>>
      shown == {k \in 1..last :
                  \/ events[k].op \in {"polygons", "render_edges", "glLineWidth"}
                  \/ events[k].op = "glDrawArrays" /\
                     events[k].target \in {"faces2d", "edges2d"}
                  \/ events[k].op \in {"glEnable", "glDisable"} /\
                     events[k].target \in {"GL_LIGHTING", "GL_DEPTH_TEST"}}
  IN [r \in 1..Cardinality(shown) |-> item(Ordered(shown)[r])]

\* The sequence draw() is to issue for the retained 2D polygon sets under the
\* current colors.
Expected2D ==
  Concat([i \in 1..Len(polysets) |->
            IF polysets[i].dim = 2
              THEN <<<<"glDisable", "GL_LIGHTING", NoColor>>,
                     <<"faces", polysets[i].src, colormap.CGAL_FACE_2D_COLOR>>,
                     <<"glDisable", "GL_DEPTH_TEST", NoColor>>,
                     <<"line width", 2, NoColor>>,
                     <<"edges", polysets[i].src, colormap.CGAL_EDGE_2D_COLOR>>,
                     <<"glEnable", "GL_DEPTH_TEST", NoColor>>>>
              ELSE <<>>])

\* C7: for the retained 2D polygon sets draw() issues, in the legacy path
\* and in the buffered path alike: disable lighting, faces in the 2D-face
\* color, disable depth test, line width 2, edges in the 2D-edge color,
\* enable depth test.
C7_SameSequenceInBothPaths ==
  call.op = "draw" => Observed2D(trace) = Expected2D

\* The kind of a segment, from its actions and its draw call.
SegmentKind(vs) ==
  IF vs.draw = NoDraw /\ vs.begin = <<>> /\ vs.end = <<glDisable("GL_LIGHTING")>>
    THEN "init"
  ELSE IF vs.draw = NoDraw /\ vs.end = <<>> /\
          vs.begin = <<glDisable("GL_DEPTH_TEST"), glLineWidth(2)>>
    THEN "edge state"
  ELSE IF vs.draw = NoDraw /\ vs.end = <<>> /\
          vs.begin = <<glEnable("GL_DEPTH_TEST")>>
    THEN "closing"
  ELSE IF vs.draw.op = "glDrawArrays" /\ vs.draw.target = "faces2d" THEN "face"
  ELSE IF vs.draw.op = "glDrawArrays" /\ vs.draw.target = "edges2d" THEN "edge"
  ELSE "other"

\* The kinds of the segments derived from the i-th polygon set, in list order.
KindsOf(i) ==
  LET own == Ordered({k \in 1..Len(polyset_states) : polyset_states[k].src = i})
  IN [r \in 1..Len(own) |-> SegmentKind(polyset_states[own[r]])]

\* init, face segments, edge state, edge segments, closing: one init, one
\* edge state and one closing segment.
IsPattern2D(kinds) ==
  \E e \in 1..Len(kinds) :
    /\ Len(kinds) >= 3
    /\ kinds[1] = "init"
    /\ 1 < e /\ e < Len(kinds)
    /\ \A r \in 2..(e - 1) : kinds[r] = "face"
    /\ kinds[e] = "edge state"
    /\ \A r \in (e + 1)..(Len(kinds) - 1) : kinds[r] = "edge"
    /\ kinds[Len(kinds)] = "closing"

\* C8: for each retained 2D polygon set createPolysets appends, in order, one
\* initial segment that disables lighting after its draw, the face
\* segment(s), one edge-state segment that disables depth testing and then
\* sets line width 2 before its draw, the edge segment(s), and one closing
\* segment that re-enables depth testing before its draw.
C8_SegmentsOf2DPolyset ==
  (call.op = "draw" /\ call.builtSegs) =>
    \A i \in 1..Len(polysets) : polysets[i].dim = 2 => IsPattern2D(KindsOf(i))

C8_Witness ==
  /\ call.op = "draw"
  /\ call.builtSegs
  /\ Len(polysets) = 2
  /\ polysets[1].dim = 3
  /\ polysets[2].dim = 2
  /\ Len(polyset_states) = 6

\* C9: after a buffered-path draw() the point size, the line width and the
\* enabled state of the position, normal and color arrays equal their values
\* when draw() was called.
C9_BufferedDrawRestores ==
  (call.op = "draw" /\ flag) =>
    /\ gl.pointSize = glBefore.pointSize
    /\ gl.lineWidth = glBefore.lineWidth
    /\ gl.vertexArray = glBefore.vertexArray
    /\ gl.normalArray = glBefore.normalArray
    /\ gl.colorArray = glBefore.colorArray

\* The polyhedron draws of a trace: <<index, combined>> per draw event.
PolyhedronDraws(events) ==
  {<<events[k].n, events[k].target>> :
     k \in {j \in 1..Len(events) : events[j].op = "polyhedron.draw"}}

\* C10: draw(showFaces, showEdges) sets every cached polyhedron to boundary
\* style if showFaces and to skeleton style otherwise, and draws each with
\* combined edges and faces exactly if showFaces and showEdges; draw(true,
\* false) directly followed by draw(true, true) does not rebuild the cache.
C10_DrawStyles ==
  /\ call.op = "draw" =>
       /\ \A i \in 1..Len(polyhedrons) :
            polyhedrons[i].style =
              IF call.showfaces THEN "SNC_BOUNDARY" ELSE "SNC_SKELETON"
       /\ PolyhedronDraws(trace) =
            {<<i, IF call.showfaces /\ call.showedges THEN "true" ELSE "false">> :
               i \in 1..Len(polyhedrons)}
  /\ (call.op = "draw" /\ call.showfaces /\ call.showedges /\
      prev.op = "draw" /\ prev.showfaces /\ ~prev.showedges)
       => (~call.rebuilt /\ call.sameRet)

C10_Witness ==
  /\ call.op = "draw" /\ call.showfaces /\ call.showedges
  /\ prev.op = "draw" /\ prev.showfaces /\ ~prev.showedges
  /\ prev.before = "setFlag"
  /\ Len(polyhedrons) = 2
  /\ ~call.rebuilt

\* The boxes of every retained polyhedron and every retained polygon set.
AllRetainedBoxes ==
  {<<"polyhedron", nefPolyhedrons[i].id>> : i \in 1..Len(nefPolyhedrons)} \cup
  {<<"polyset", polysets[i].src>> : i \in 1..Len(polysets)}

\* C11: getBoundingBox() returns the union of the boxes of every retained
\* polyhedron and every retained polygon set (the empty box when nothing is
\* retained), and with retained polyhedra the cache holds one entry per
\* retained polyhedron after the call.
C11_BoundingBoxCoversAllRetained ==
  call.op = "getBoundingBox" =>
    /\ call.bbox = AllRetainedBoxes
    /\ (NoneRetained = Retained => call.bbox = {})
    /\ (nefPolyhedrons # <<>> => Len(polyhedrons) = Len(nefPolyhedrons))

IsKnown(leaf) == leaf.kind \in {"PolySet", "Polygon2d", "CGAL_Nef_polyhedron"}

\* The entries that the leaves of a handle add to the two retained lists when
\* the leaves of unknown variant are left out.
SiblingsRetained(geom) ==
  LET known == SelectSeq(LeafSeq(geom), IsKnown)
      ps == SelectSeq(known, IsPolygonSet)
      nf == SelectSeq(known, IsNonEmptyNef)
  IN [polysets |-> [i \in 1..Len(ps) |->
                      [dim |-> IF ps[i].kind = "Polygon2d" THEN 2 ELSE 3,
                       src |-> ps[i].id]],
      nefPolyhedrons |-> [i \in 1..Len(nf) |-> [id |-> nf[i].id, empty |-> FALSE]]]

\* C12: addGeometry of a handle of unknown variant changes neither retained
\* list, nor the polyhedron cache, nor the segment list; in a Composite the
\* child of unknown variant is skipped and its siblings are retained in order.
C12_UnknownVariantIgnored ==
  [][call'.op = "addGeometry" =>
       /\ ~IsKnown(call'.geom) /\ call'.geom.kind # "GeometryList" =>
            UNCHANGED <<polysets, nefPolyhedrons, polyhedrons, polyset_states>>
       /\ (\E i \in DOMAIN LeafSeq(call'.geom) : ~IsKnown(LeafSeq(call'.geom)[i])) =>
            /\ polysets' = polysets \o SiblingsRetained(call'.geom).polysets
            /\ nefPolyhedrons' =
                 nefPolyhedrons \o SiblingsRetained(call'.geom).nefPolyhedrons
            /\ UNCHANGED <<polyhedrons, polyset_states>>]_vars

C12_Witness ==
  /\ call.op = "addGeometry"
  /\ call.geom = OtherGeom
  /\ polysets # <<>>
  /\ nefPolyhedrons # <<>>
  /\ polyhedrons # <<>>
  /\ polyset_states # <<>>

\* The positions in a trace of the events that draw a polygon set, in either
\* path, and of the events that draw a polyhedron.
PolysetDrawAt(events) ==
  {k \in DOMAIN events :
     events[k].op \in {"polygons", "render_edges", "render_surface", "glDrawArrays"}}

PolyhedronDrawAt(events) ==
  {k \in DOMAIN events : events[k].op = "polyhedron.draw"}

\* C13: in every draw(), in both paths, every draw event of a polygon set
\* comes before the first draw event of a polyhedron, and every cached
\* polyhedron is drawn exactly once.
C13_PolysetsBeforePolyhedrons ==
  call.op = "draw" =>
    /\ \A p \in PolysetDrawAt(trace) : \A n \in PolyhedronDrawAt(trace) : p < n
    /\ \A i \in 1..Len(polyhedrons) :
         Cardinality({n \in PolyhedronDrawAt(trace) : trace[n].n = i}) = 1
    /\ \A n \in PolyhedronDrawAt(trace) : trace[n].n \in 1..Len(polyhedrons)

C13_Witness ==
  /\ call.op = "draw"
  /\ flag
  /\ Len(polyhedrons) = 2
  /\ Cardinality(PolysetDrawAt(trace)) >= 2
  /\ Cardinality(PolyhedronDrawAt(trace)) = 2

\* The number of events that a segment issues.
SegmentSize(vs) ==
  Len(vs.begin) + (IF vs.draw.op = "none" THEN 0 ELSE 1) + Len(vs.end)

\* The number of events that the first k segments issue.
RECURSIVE EventsOfFirst(_, _)
EventsOfFirst(segs, k) ==
  IF k = 0 THEN 0 ELSE EventsOfFirst(segs, k - 1) + SegmentSize(segs[k])

\* The events between the bind and the unbind of the buffer are, segment by
\* segment in list order, the pre-actions, the draw and the post-actions.
SegmentsReplayed(events, segs) ==
  LET binds == {j \in DOMAIN events : events[j].op = "glBindBuffer"}
      first == CHOOSE j \in binds : \A m \in binds : j <= m
      last == LastIndex(binds)
  IN /\ Cardinality(binds) = 2
     /\ last - first - 1 = EventsOfFirst(segs, Len(segs))
     /\ \A k \in 1..Len(segs) :
          LET at == first + EventsOfFirst(segs, k - 1)
              nb == Len(segs[k].begin)
              nd == IF segs[k].draw.op = "none" THEN 0 ELSE 1
          IN /\ \A r \in 1..nb : events[at + r] = segs[k].begin[r]
             /\ nd = 1 => events[at + nb + 1] = segs[k].draw
             /\ \A r \in 1..Len(segs[k].end) :
                  events[at + nb + nd + r] = segs[k].end[r]

\* C14: the segments are ordered by the position of their polygon set in the
\* retained list, and a buffered draw() issues the pre-actions, the draw and
\* the post-actions of each segment in list order, each segment once.
C14_SegmentsInOrder ==
  /\ \A j, k \in 1..Len(polyset_states) :
       j < k => polyset_states[j].src <= polyset_states[k].src
  /\ (call.op = "draw" /\ flag) => SegmentsReplayed(trace, polyset_states)

C14_Witness ==
  /\ call.op = "draw"
  /\ flag
  /\ ~call.builtSegs
  /\ \E j, k \in 1..Len(polyset_states) :
       polyset_states[j].src < polyset_states[k].src
  /\ \E k \in 1..Len(polyset_states) : polyset_states[k].begin # <<>>

\* C15: right after a call that rebuilt the cache, from getDrawables() or
\* from getBoundingBox(), last_render_state is the flag value under which the
\* entries were built.
C15_RebuildRecordsFlag ==
  (call.op \in Getters /\ call.rebuilt) =>
    /\ last_render_state = flag
    /\ \A i \in 1..Len(polyhedrons) : polyhedrons[i].vbo = last_render_state

\* The calls of a trace that release a buffer handle.
Releases(events) ==
  {k \in DOMAIN events : events[k].op = "glDeleteBuffers"}

\* C16: a draw() on the legacy path builds no segments and acquires no buffer
\* handle; a draw() on the buffered path builds only when the segment list is
\* empty; once a handle is acquired no later step acquires another one or
\* changes the segments; destruction releases the handle exactly if one was
\* acquired, and leaves no handle in use.
C16_SegmentsBuiltOnce ==
  [][/\ (call'.op = "draw" /\ ~flag) =>
          /\ UNCHANGED <<polyset_states, polyset_vbo>>
          /\ gl'.buffers = gl.buffers
     /\ (call'.op = "draw" /\ polyset_states # <<>>) =>
          /\ UNCHANGED <<polyset_states, polyset_vbo>>
          /\ gl'.buffers = gl.buffers
     /\ (call'.op = "draw" /\ polyset_states' # polyset_states) =>
          (flag /\ polyset_states = <<>>)
     /\ (gl.buffers # {} /\ call'.op # "destroy") =>
          /\ UNCHANGED <<polyset_states, polyset_vbo>>
          /\ gl'.buffers = gl.buffers
     /\ Cardinality(gl'.buffers) <= 1
     /\ call'.op = "destroy" =>
          /\ Cardinality(Releases(trace')) = Cardinality(gl.buffers)
          /\ gl'.buffers = {}]_vars

C16_Witness ==
  /\ call.op = "destroy"
  /\ prev.op = "draw"
  /\ prev.before = "draw"
  /\ polyset_vbo # 0
  /\ Cardinality(Releases(trace)) = 1
  /\ gl.buffers = {}

\* C17: only addGeometry changes the retained polygon sets and the retained
\* polyhedra; draw(), getBoundingBox(), getDrawables(), setColorScheme() and
\* a change of the flag leave both lists as they are.
C17_OnlyAddGeometryChangesLists ==
  [][call'.op # "addGeometry" => UNCHANGED <<polysets, nefPolyhedrons>>]_vars

C17_Witness ==
  /\ call.op = "getPolyhedrons"
  /\ call.rebuilt
  /\ prev.op = "setColorScheme"
  /\ prev.before = "draw"
  /\ Len(polysets) = 2
  /\ Len(nefPolyhedrons) = 2

\* C18: after draw(), on the legacy and on the buffered path, the lighting
\* flag, the depth-test flag and the line width of the global graphics state
\* are what they were before the call.
C18_DrawRestoresGlobalState ==
  call.op = "draw" =>
    /\ gl.lighting = glBefore.lighting
    /\ gl.depthTest = glBefore.depthTest
    /\ gl.lineWidth = glBefore.lineWidth

\* C19: the list that getDrawables() returns holds only polyhedra built
\* under the flag value of that call.
C19_NoStaleDrawables ==
  call.op \in {"getPolyhedrons", "getBoundingBox"} =>
    \A i \in 1..Len(polyhedrons) : polyhedrons[i].vbo = flag

\* The colors with which a trace draws the faces and the edges of 2D
\* polygon sets, in either path.
Colors2D(events) ==
  {Observed2D(events)[k][3] :
     k \in {j \in DOMAIN Observed2D(events) :
              Observed2D(events)[j][1] \in {"faces", "edges"}}}

\* C20: the draw() that follows setColorScheme(cs) draws every retained 2D
\* polygon set with the 2D face and edge colors of cs, on the buffered path
\* as on the legacy path.
C20_SchemeReachesSegments ==
  (call.op = "draw" /\ prev.op = "setColorScheme") =>
    Colors2D(trace) \subseteq {getColor(colorscheme, "CGAL_FACE_2D_COLOR"),
                               getColor(colorscheme, "CGAL_EDGE_2D_COLOR")}


====
